---- MODULE Spec2Model ----
(***************************************************************************)
(* Model of the segmented file sink of src/output/file.rs: the File struct *)
(* (header, current, segment_index), its Output / Write implementations    *)
(* (set_header, flush, write_all) and the segment-creation procedure       *)
(* (ensure_file, create_segment_file, segment_path) acting on a file       *)
(* system that holds pre-existing files and can fail any call.             *)
(***************************************************************************)
EXTENDS Integers, Sequences, FiniteSets, TLC

(* ---- bounds of the model ------------------------------------------- *)

\* width, in bits, of the segment counter (u64 in the source, scaled down
\* so that the saturated counter is reachable)
U64Bits == 1

\* number of distinct wall-clock seconds the clock can report
MaxClock == 2

\* largest number of files present before the sink is constructed
MaxPre == 2

\* largest number of calls made on one sink
MaxOps == 5

\* largest number of I/O failures injected into one run
MaxFaults == 1

(* ---- values ---------------------------------------------------------- *)

U64Max == (2 ^ U64Bits) - 1

Timestamps == 1 .. MaxClock

\* byte blobs handed to set_header
Headers == {<<1, 2>>, <<6>>}

\* byte blobs handed to write_all
Buffers == {<<3>>, <<4, 5>>}

\* contents of a file that exists before the sink is constructed
PreContent == <<9>>

\* Option<T>: None is the empty set, Some(x) the singleton
NoneOpt == {}

Some(x) == {x}

Unwrap(o) == CHOOSE x \in o : TRUE

AbsentFile == [exists |-> FALSE, data |-> <<>>]

FileOf(bytes) == [exists |-> TRUE, data |-> bytes]

Prefix(s, n) == SubSeq(s, 1, n)

(* ---- integer arithmetic of the counter ------------------------------- *)

saturating_add(a, b) == IF a + b > U64Max THEN U64Max ELSE a + b

\* the candidate index left at segment_index on every retry
wrapping_add_ignore(a, b) == a

\* a + b in a build without overflow checks
wrapping_add(a, b) == (a + b) % (U64Max + 1)

(* ---- File::segment_path ---------------------------------------------- *)

RECURSIVE Digits(_)
Digits(n) == IF n < 10 THEN <<n>> ELSE Digits(n \div 10) \o <<n % 10>>

\* {index:05}: decimal digits, zero-padded on the left to width 5
Pad5(n) ==
    LET d == Digits(n)
    IN  IF Len(d) >= 5 THEN d ELSE [i \in 1 .. (5 - Len(d)) |-> 0] \o d

\* base path "out/record.ts", channel "ch1"
segment_path(timestamp, index) ==
    [dir |-> "out", stem |-> "record", channel |-> "ch1",
     timestamp |-> timestamp, index |-> Pad5(index), ext |-> "ts"]

\* a file in the same directory that is no candidate of the sink
OtherPath ==
    [dir |-> "out", stem |-> "other", channel |-> "", timestamp |-> 0,
     index |-> <<>>, ext |-> "log"]

CandidatePaths == {segment_path(t, i) : t \in Timestamps, i \in 0 .. U64Max}

AllPaths == CandidatePaths \cup {OtherPath}

\* candidate paths that can exist before construction: segments left by an
\* earlier run (the timestamps are interchangeable, so one of them)
PrePaths == {segment_path(1, i) : i \in 0 .. U64Max}

(* ---- state ----------------------------------------------------------- *)

VARIABLES
    fs,               \* the directory: path -> [exists, data]
    overwrite,        \* File.overwrite
    header,           \* File.header : Option<Vec<u8>>
    current,          \* File.current : Option<fs::File>, the path it is open on
    segment_index,    \* File.segment_index
    status,           \* "running", "panicked" (overflow), "hung" (endless retry)
    ops,              \* number of calls made so far
    faults,           \* number of I/O failures injected so far
    last,             \* what the last call did
    pre,              \* the directory as it was before construction
    made,             \* paths at which a create call of the sink succeeded
    used_index,       \* indices of the paths in made
    claimed,          \* path -> header at creation, then the buffers written by Ok calls
    failed_write,     \* paths a header or data write to which failed
    closed,           \* path -> contents when flush closed it
    log               \* levels of the "Recording to" lines logged so far

vars == <<fs, overwrite, header, current, segment_index, status, ops, faults, last, pre, made, used_index, claimed, failed_write,
          closed, log>>

NoFault == [failAt |-> -1, hdrFail |-> -1, dataFail |-> -1, flushFail |-> FALSE,
            kind |-> ""]

\* the I/O failure injected into one call (a call returns at its first
\* failure, so one is enough): the attempt at which the create call fails
\* with a kind other than AlreadyExists, or the number of header (data)
\* bytes that reach the file before the write fails, or a failing flush of
\* the open file; -1 means no failure
Faults ==
    {NoFault}
    \cup {[NoFault EXCEPT !.failAt = a, !.kind = "PermissionDenied"] :
             a \in 0 .. U64Max}
    \cup {[NoFault EXCEPT !.hdrFail = n, !.kind = "StorageFull"] : n \in 0 .. 1}
    \cup {[NoFault EXCEPT !.dataFail = n, !.kind = "StorageFull"] : n \in 0 .. 1}

FlushFaults == {NoFault, [NoFault EXCEPT !.flushFail = TRUE, !.kind = "Other"]}

NoCall ==
    [op |-> "new", res |-> "Ok", err |-> "", fault |-> NoFault,
     entry_index |-> 0, entry_current |-> NoneOpt, tried |-> <<>>,
     made |-> NoneOpt, file |-> NoneOpt, level |-> "", timestamp |-> 0,
     buf |-> <<>>, hdrFailed |-> FALSE, dataFailed |-> FALSE]

(* ---- File::new ------------------------------------------------------- *)

Init ==
    /\ \E P \in SUBSET PrePaths :
          /\ Cardinality(P) <= MaxPre
          /\ fs = [p \in AllPaths |->
                     IF p \in P \cup {OtherPath}
                     THEN FileOf(PreContent) ELSE AbsentFile]
    /\ pre = fs
    /\ overwrite \in BOOLEAN
    /\ header = NoneOpt
    /\ current = NoneOpt
    /\ segment_index = 0
    /\ status = "running"
    /\ ops = 0
    /\ faults = 0
    /\ last = NoCall
    /\ made = {}
    /\ used_index = {}
    /\ claimed = [p \in AllPaths |-> <<>>]
    /\ failed_write = {}
    /\ closed = [p \in AllPaths |-> AbsentFile]
    /\ log = <<>>

(* ---- File::create_segment_file --------------------------------------- *)

HeaderBytes == IF header = NoneOpt THEN <<>> ELSE Unwrap(header)

\* the result of one run of the procedure: res is "Ok" (file holds the
\* handle), "Err" (err holds the kind), "panic" or "hang"
Outcome(res, err, file, madeAt, tried, newFs, newIndex, level, hdrFailed) ==
    [res |-> res, err |-> err, file |-> file, made |-> madeAt, tried |-> tried,
     fs |-> newFs, segment_index |-> newIndex, level |-> level,
     hdrFailed |-> hdrFailed]

\* fs::File::create (truncate or create) and fs::File::create_new on a path
\* the call succeeds on: the file exists and is empty
CreateAt(path) == [fs EXCEPT ![path] = FileOf(<<>>)]

\* create_new used under either policy
AlreadyExists_always_exclusive(path) == fs[path].exists

\* File::create used under either policy
AlreadyExists_never(path) == FALSE

\* does the create call of this policy collide with an existing file
AlreadyExists(path) == ~overwrite /\ fs[path].exists

\* the level chosen without looking at segment_index
LogLevel_first_attempt(attempt) == IF attempt = 0 THEN "info" ELSE "debug"

\* info for the very first segment, debug afterwards
LogLevel(attempt) ==
    IF segment_index = 0 /\ attempt = 0 THEN "info" ELSE "debug"

\* the Ok arm advancing the counter before the header is written
CreatedArm_index_first(path, index, attempt, tried, F) ==
    LET hdr     == HeaderBytes
        whole   == header = NoneOpt \/ F.hdrFail < 0 \/ F.hdrFail >= Len(hdr)
        written == IF whole THEN hdr ELSE Prefix(hdr, F.hdrFail)
        fs2     == [CreateAt(path) EXCEPT ![path].data = written]
    IN  IF whole
        THEN Outcome("Ok", "", Some(path), Some(path), tried, fs2,
                     saturating_add(index, 1), LogLevel(attempt), FALSE)
        ELSE Outcome("Err", F.kind, NoneOpt, Some(path), tried, fs2,
                     saturating_add(index, 1), "", TRUE)

\* the Ok arm with the header write left out
CreatedArm_no_header(path, index, attempt, tried, F) ==
    Outcome("Ok", "", Some(path), Some(path), tried, CreateAt(path),
            saturating_add(index, 1), LogLevel(attempt), FALSE)

\* Ok(mut file) arm: write the header, log, advance the counter
CreatedArm(path, index, attempt, tried, F) ==
    LET hdr     == HeaderBytes
        whole   == header = NoneOpt \/ F.hdrFail < 0 \/ F.hdrFail >= Len(hdr)
        written == IF whole THEN hdr ELSE Prefix(hdr, F.hdrFail)
        fs2     == [CreateAt(path) EXCEPT ![path].data = written]
    IN  IF whole
        THEN Outcome("Ok", "", Some(path), Some(path), tried, fs2,
                     saturating_add(index, 1), LogLevel(attempt), FALSE)
        ELSE Outcome("Err", F.kind, NoneOpt, Some(path), tried, fs2,
                     segment_index, "", TRUE)

\* the second the clock shows at the given attempt of a procedure entered at
\* second timestamp: it advances with every retry, up to the last second
ClockAt(timestamp, attempt) ==
    IF timestamp + attempt > MaxClock THEN MaxClock ELSE timestamp + attempt

\* the candidate path built from a timestamp sampled again at each attempt
candidate_path_resampled(timestamp, attempt, index) ==
    segment_path(ClockAt(timestamp, attempt), index)

\* the candidate path of an attempt: `timestamp` is sampled once, before the
\* loop, and every attempt formats it with its own index
candidate_path(timestamp, attempt, index) == segment_path(timestamp, index)

\* the loop of create_segment_file from the given attempt on; overflow_checks
\* is the build profile: `segment_index + attempt` panics on overflow when
\* it is set and wraps when it is not
RECURSIVE create_loop(_, _, _, _, _)
create_loop(timestamp, attempt, tried, F, overflow_checks) ==
    IF overflow_checks /\ segment_index + attempt > U64Max
    THEN Outcome("panic", "", NoneOpt, NoneOpt, tried, fs, segment_index, "",
                 FALSE)
    ELSE
      LET index  == wrapping_add(segment_index, attempt)
          path   == candidate_path(timestamp, attempt, index)
          tried2 == Append(tried, index)
      IN  IF attempt = F.failAt
          THEN Outcome("Err", F.kind, NoneOpt, NoneOpt, tried2, fs,
                       segment_index, "", FALSE)
          ELSE IF ~AlreadyExists(path)
          THEN CreatedArm(path, index, attempt, tried2, F)
          ELSE IF saturating_add(attempt, 1) = attempt
          THEN \* the same candidate collides for ever
               Outcome("hang", "", NoneOpt, NoneOpt, tried2, fs, segment_index,
                       "", FALSE)
          ELSE create_loop(timestamp, saturating_add(attempt, 1), tried2, F,
                           overflow_checks)

create_segment_file(timestamp, F, overflow_checks) ==
    create_loop(timestamp, 0, <<>>, F, overflow_checks)

(* ---- File::ensure_file ----------------------------------------------- *)

\* ensure_file without the is_some early return
ensure_file_always_create(timestamp, F, overflow_checks) ==
    create_segment_file(timestamp, F, overflow_checks)

ensure_file(timestamp, F, overflow_checks) ==
    IF current # NoneOpt
    THEN Outcome("Ok", "", current, NoneOpt, <<>>, fs, segment_index, "", FALSE)
    ELSE create_segment_file(timestamp, F, overflow_checks)

\* at most MaxFaults calls fail
FaultBudget(F) == F # NoFault => faults < MaxFaults

Charge == faults' = IF last'.fault # NoFault THEN faults + 1 ELSE faults

(* ---- impl Write for File: write_all ---------------------------------- *)

\* fs::File::write_all of buf on the open file: all of buf, or, when the
\* write fails, the bytes that reached the file before the failure
DataFails(buf, F) == F.dataFail >= 0 /\ F.dataFail < Len(buf)

DataWritten(buf, F) == IF DataFails(buf, F) THEN Prefix(buf, F.dataFail) ELSE buf

\* impl Write for File: write, the partial-write primitive: unreachable!()
write(buf) == [res |-> "unreachable", written |-> <<>>, err |-> ""]

\* Write::write_all as the trait provides it: a loop over self.write
file_write_all_default(buf, F) == write(buf)

\* fs::File::write_all on the handle write_all unwrapped
file_write_all(buf, F) ==
    IF DataFails(buf, F)
    THEN [res |-> "Err", written |-> DataWritten(buf, F), err |-> F.kind]
    ELSE [res |-> "Ok", written |-> buf, err |-> ""]

\* write_all dropping the handle when the data write fails
current_after_write_drop(e, buf, F) ==
    IF e.res # "Ok" THEN current
    ELSE IF DataFails(buf, F) THEN NoneOpt ELSE e.file

\* self.current after write_all, e being what ensure_file did
current_after_write(e, buf, F) == IF e.res = "Ok" THEN e.file ELSE current

StatusAfter(e) ==
    CASE e.res = "panic" -> "panicked"
      [] e.res = "hang"  -> "hung"
      [] OTHER           -> "running"

write_all(buf, timestamp, F, overflow_checks) ==
    /\ status = "running"
    /\ ops < MaxOps
    /\ FaultBudget(F)
    /\ overflow_checks \/ ensure_file(timestamp, F, TRUE).res = "panic"
    /\ LET e       == ensure_file(timestamp, F, overflow_checks)
           \* .expect("File handle missing after ensure_file")
           missing == e.res = "Ok" /\ e.file = NoneOpt
           opened  == e.res = "Ok" /\ ~missing
           path    == Unwrap(e.file)
           w       == file_write_all(buf, F)
           fails   == opened /\ w.res = "Err"
           aborted == missing \/ (opened /\ w.res = "unreachable")
       IN  /\ fs' = IF opened
                    THEN [e.fs EXCEPT ![path].data = @ \o w.written]
                    ELSE e.fs
           /\ current' = current_after_write(e, buf, F)
           /\ segment_index' = e.segment_index
           /\ status' = IF aborted THEN "panicked" ELSE StatusAfter(e)
           /\ log' = IF e.level # "" THEN Append(log, e.level) ELSE log
           /\ made' = made \cup e.made
           /\ used_index' =
                 IF e.made = NoneOpt THEN used_index
                 ELSE used_index \cup {e.tried[Len(e.tried)]}
           /\ claimed' =
                 LET c1 == IF e.made = NoneOpt THEN claimed
                           ELSE [claimed EXCEPT ![Unwrap(e.made)] = HeaderBytes]
                 IN  IF opened /\ ~fails THEN [c1 EXCEPT ![path] = @ \o buf] ELSE c1
           /\ failed_write' =
                 (IF e.made # NoneOpt /\ ~e.hdrFailed
                  THEN failed_write \ e.made ELSE failed_write)
                 \cup (IF e.hdrFailed THEN e.made ELSE {})
                 \cup (IF fails THEN e.file ELSE {})
           /\ closed' = closed
           /\ last' =
                 [op |-> "write_all",
                  res |-> IF missing THEN "expect"
                          ELSE IF e.res = "Ok" THEN w.res ELSE e.res,
                  err |-> IF e.res = "Err" THEN e.err
                          ELSE IF fails THEN w.err ELSE "",
                  fault |-> IF e.res = "Err" \/ fails THEN F ELSE NoFault,
                  entry_index |-> segment_index, entry_current |-> current,
                  tried |-> e.tried, made |-> e.made, file |-> e.file,
                  level |-> e.level,
                  timestamp |-> IF e.tried = <<>> THEN 0 ELSE timestamp,
                  buf |-> buf,
                  hdrFailed |-> e.hdrFailed, dataFailed |-> fails]
    /\ ops' = ops + 1
    /\ Charge
    /\ UNCHANGED <<overwrite, header, pre>>

(* ---- impl Write for File: flush -------------------------------------- *)

\* the flush failing with no file open
FlushFails_unguarded(F) == F.flushFail

\* fs::File::flush of the open file fails
FlushFails(F) == current # NoneOpt /\ F.flushFail

\* self.current after flush: `file.flush()?` returns before the assignment
current_after_flush(F) == IF FlushFails(F) THEN current ELSE NoneOpt

flush(F) ==
    /\ status = "running"
    /\ ops < MaxOps
    /\ FaultBudget(F)
    /\ current' = current_after_flush(F)
    /\ closed' = IF current # NoneOpt /\ current' = NoneOpt
                 THEN [closed EXCEPT ![Unwrap(current)] = fs[Unwrap(current)]]
                 ELSE closed
    /\ last' = [NoCall EXCEPT !.op = "flush",
                  !.res = IF FlushFails(F) THEN "Err" ELSE "Ok",
                  !.err = IF FlushFails(F) THEN F.kind ELSE "",
                  !.fault = IF FlushFails(F) THEN F ELSE NoFault,
                  !.entry_index = segment_index, !.entry_current = current]
    /\ ops' = ops + 1
    /\ Charge
    /\ UNCHANGED <<fs, overwrite, header, segment_index, status, pre, made,
                   used_index, claimed, failed_write, log>>

(* ---- impl Output for File: set_header -------------------------------- *)

\* set_header keeping the header of the first call
set_header_first_wins(h) ==
    /\ status = "running"
    /\ ops < MaxOps
    /\ header' = IF header = NoneOpt THEN Some(h) ELSE header
    /\ last' = [NoCall EXCEPT !.op = "set_header", !.buf = h,
                  !.entry_index = segment_index, !.entry_current = current]
    /\ ops' = ops + 1
    /\ UNCHANGED <<fs, overwrite, current, segment_index, status, faults, pre,
                   made, used_index, claimed, failed_write, closed, log>>

set_header(h) ==
    /\ status = "running"
    /\ ops < MaxOps
    /\ header' = Some(h)
    /\ last' = [NoCall EXCEPT !.op = "set_header", !.buf = h,
                  !.entry_index = segment_index, !.entry_current = current]
    /\ ops' = ops + 1
    /\ UNCHANGED <<fs, overwrite, current, segment_index, status, faults, pre,
                   made, used_index, claimed, failed_write, closed, log>>

(* ---- the sink's caller ----------------------------------------------- *)

Next ==
    \/ \E h \in Headers : set_header(h)
    \/ \E b \in Buffers, t \in Timestamps, F \in Faults, c \in BOOLEAN :
          write_all(b, t, F, c)
    \/ \E F \in FlushFaults : flush(F)

Spec == Init /\ [][Next]_vars

(* ---- construction: File::new(args, channel) --------------------------- *)

\* the values of args.path: absent, or the template the paths are derived from
ArgsPaths == {NoneOpt, Some("out/record.ts")}

\* before File::new has run there is no sink: the fields hold nothing the
\* program has written, the file system holds what was there before
InitNew ==
    /\ \E P \in SUBSET PrePaths :
          /\ Cardinality(P) <= MaxPre
          /\ fs = [p \in AllPaths |->
                     IF p \in P \cup {OtherPath}
                     THEN FileOf(PreContent) ELSE AbsentFile]
    /\ pre = fs
    /\ overwrite = FALSE
    /\ header \in {NoneOpt} \cup {Some(h) : h \in Headers}
    /\ current = NoneOpt
    /\ segment_index \in 0 .. U64Max
    /\ status = "unbuilt"
    /\ ops = 0
    /\ faults = 0
    /\ last = [NoCall EXCEPT !.op = "none"]
    /\ made = {}
    /\ used_index = {}
    /\ claimed = [p \in AllPaths |-> <<>>]
    /\ failed_write = {}
    /\ closed = [p \in AllPaths |-> AbsentFile]
    /\ log = <<>>

\* a construction that opens the first segment file at once
new_eager(args_path, args_overwrite) ==
    /\ status = "unbuilt"
    /\ ops' = ops + 1
    /\ last' = [NoCall EXCEPT !.level = IF args_path = NoneOpt THEN "" ELSE "info"]
    /\ IF args_path = NoneOpt
       THEN /\ status' = "disabled"
            /\ UNCHANGED <<fs, overwrite, header, current, segment_index, made>>
       ELSE /\ status' = "running"
            /\ overwrite' = args_overwrite
            /\ header' = NoneOpt
            /\ segment_index' = 1
            /\ current' = Some(segment_path(1, 0))
            /\ fs' = [fs EXCEPT ![segment_path(1, 0)] = FileOf(<<>>)]
            /\ made' = {segment_path(1, 0)}
    /\ UNCHANGED <<faults, pre, used_index, claimed, failed_write, closed, log>>

\* File::new: Ok(None) when args.path is absent; otherwise the info line
\* "Recording segments to" and a sink with header None, current None,
\* segment_index 0 and args.overwrite; no file system call
new(args_path, args_overwrite) ==
    /\ status = "unbuilt"
    /\ ops' = ops + 1
    /\ last' = [NoCall EXCEPT !.level = IF args_path = NoneOpt THEN "" ELSE "info"]
    /\ IF args_path = NoneOpt
       THEN /\ status' = "disabled"
            /\ UNCHANGED <<overwrite, header, current, segment_index>>
       ELSE /\ status' = "running"
            /\ overwrite' = args_overwrite
            /\ header' = NoneOpt
            /\ current' = NoneOpt
            /\ segment_index' = 0
    /\ UNCHANGED <<fs, faults, pre, made, used_index, claimed, failed_write,
                   closed, log>>

NextNew ==
    \/ \E p \in ArgsPaths, o \in BOOLEAN : new(p, o)
    \/ Next

SpecNew == InitNew /\ [][NextNew]_vars

(* ---- File::segment_path on the text of the paths ---------------------- *)

\* Text is a sequence of one-character strings. args.path is a String, so
\* base_path is valid UTF-8 and to_string_lossy returns it unchanged.
Sep == "/"

Dot == "."

DefaultStem == <<"r", "e", "c", "o", "r", "d", "i", "n", "g">>

DefaultExt == <<"t", "s">>

DigitChar(d) == <<"0", "1", "2", "3", "4", "5", "6", "7", "8", "9">>[d + 1]

\* the text format! writes for {index:05}
IndexText(index) ==
    LET d == Pad5(index) IN [i \in 1 .. Len(d) |-> DigitChar(d[i])]

\* the pieces of a text between the occurrences of a character
RECURSIVE SplitOn(_, _)
SplitOn(s, c) ==
    IF s = <<>> THEN << <<>> >>
    ELSE LET r == SplitOn(Tail(s), c)
         IN  IF Head(s) = c THEN << <<>> >> \o r
             ELSE << <<Head(s)>> \o Head(r) >> \o Tail(r)

\* the pieces 1 .. n of a split put together again
RECURSIVE JoinPieces(_, _, _)
JoinPieces(pieces, n, c) ==
    IF n = 0 THEN <<>>
    ELSE IF n = 1 THEN pieces[1]
    ELSE JoinPieces(pieces, n - 1, c) \o <<c>> \o pieces[n]

has_root(path) == path # <<>> /\ path[1] = Sep

\* Path::components: the positions of the pieces that are components; empty
\* pieces and "." are skipped, except a leading "." of a relative path
ComponentAt(path, k) ==
    LET pieces == SplitOn(path, Sep)
    IN  /\ pieces[k] # <<>>
        /\ pieces[k] # <<Dot>> \/ (k = 1 /\ ~has_root(path))

\* the position of the last component before position n, 0 if none
RECURSIVE LastComponent(_, _)
LastComponent(path, n) ==
    IF n = 0 THEN 0
    ELSE IF ComponentAt(path, n) THEN n
    ELSE LastComponent(path, n - 1)

\* Path::file_name: the last component if it is a normal one
file_name(path) ==
    LET pieces == SplitOn(path, Sep)
        k      == LastComponent(path, Len(pieces))
    IN  IF k = 0 \/ pieces[k] = <<Dot>> \/ pieces[k] = <<Dot, Dot>>
        THEN NoneOpt
        ELSE Some(pieces[k])

\* Path::parent: the path without its last component; None for a root or
\* the empty path
parent(path) ==
    LET pieces == SplitOn(path, Sep)
        k      == LastComponent(path, Len(pieces))
        j      == LastComponent(path, k - 1)
    IN  IF k = 0 THEN NoneOpt
        ELSE IF j = 0 THEN Some(IF has_root(path) THEN <<Sep>> ELSE <<>>)
        ELSE Some(JoinPieces(pieces, j, Sep))

\* the position of the last dot of a name, 0 if none
RECURSIVE LastDot(_, _)
LastDot(name, n) ==
    IF n = 0 THEN 0
    ELSE IF name[n] = Dot THEN n
    ELSE LastDot(name, n - 1)

\* std rsplit_file_at_dot: (before, after) around the last dot
rsplit_file_at_dot(name) ==
    LET d == LastDot(name, Len(name))
    IN  IF name = <<Dot, Dot>> THEN <<Some(name), NoneOpt>>
        ELSE IF d = 0 THEN <<NoneOpt, Some(name)>>
        ELSE IF d = 1 THEN <<Some(name), NoneOpt>>
        ELSE <<Some(SubSeq(name, 1, d - 1)),
               Some(SubSeq(name, d + 1, Len(name)))>>

\* Path::file_stem: before.or(after)
file_stem(path) ==
    IF file_name(path) = NoneOpt THEN NoneOpt
    ELSE LET ba == rsplit_file_at_dot(Unwrap(file_name(path)))
         IN  IF ba[1] # NoneOpt THEN ba[1] ELSE ba[2]

\* Path::extension: before.and(after)
extension(path) ==
    IF file_name(path) = NoneOpt THEN NoneOpt
    ELSE LET ba == rsplit_file_at_dot(Unwrap(file_name(path)))
         IN  IF ba[1] # NoneOpt THEN ba[2] ELSE NoneOpt

\* Option::filter(|s| !s.is_empty()).unwrap_or_else(default)
NonEmptyOr(opt, default) ==
    IF opt = NoneOpt \/ opt = Some(<<>>) THEN default ELSE Unwrap(opt)

\* split_stem_ext keeping an empty extension
split_stem_ext_keep_empty(path) ==
    <<NonEmptyOr(IF file_stem(path) # NoneOpt THEN file_stem(path)
                 ELSE file_name(path), DefaultStem),
      IF extension(path) = NoneOpt THEN DefaultExt
      ELSE Unwrap(extension(path))>>

split_stem_ext(path) ==
    <<NonEmptyOr(IF file_stem(path) # NoneOpt THEN file_stem(path)
                 ELSE file_name(path), DefaultStem),
      NonEmptyOr(extension(path), DefaultExt)>>

\* Path::join of a non-empty parent and a relative file name
join(dir, filename) ==
    IF dir[Len(dir)] = Sep THEN dir \o filename
    ELSE dir \o <<Sep>> \o filename

\* the file name segment_path formats
segment_filename(base_path, channel, timestamp, index) ==
    LET se == split_stem_ext(base_path)
    IN  se[1] \o <<"_">> \o channel \o <<"_">> \o timestamp \o <<"_">>
          \o IndexText(index) \o <<Dot>> \o se[2]

\* File::segment_path as a function of base_path, channel and its arguments
segment_path_text(base_path, channel, timestamp, index) ==
    LET filename == segment_filename(base_path, channel, timestamp, index)
        dir      == parent(base_path)
    IN  IF dir # NoneOpt /\ Unwrap(dir) # <<>>
        THEN join(Unwrap(dir), filename)
        ELSE filename

BasePaths ==
    {<<>>,
     <<"a">>,
     <<"a", ".", "b">>,
     <<"a", ".">>,
     <<".", "b">>,
     <<"a", ".", "b", ".", "c">>,
     <<"d", "/", "a", ".", "b">>,
     <<"d", "/", "a">>,
     <<"d", "/">>,
     <<"d", "/", "/", "a", ".", "b">>,
     <<"d", "/", ".", "/", "a">>,
     <<"/", "a", ".", "b">>,
     <<"/">>,
     <<".", ".">>,
     <<"d", "/", ".", ".">>,
     <<".">>,
     <<".", "/", "a">>,
     <<"d", "/", ".", "b">>}

Channels == {<<"c">>, <<"c", "2">>}

TimestampTexts == {<<"1", "-", "2", "_", "3">>, <<"1", "-", "2", "_", "4">>}

Indices == {0, 7, 12345, 99999, 100000, 100007}

\* the inputs of one call, not yet applied
InitPath ==
    /\ \E b \in BasePaths, c \in Channels, t \in TimestampTexts, i \in Indices :
          last = [op |-> "input", base_path |-> b, channel |-> c,
                  timestamp |-> t, index |-> i, path |-> <<>>]
    /\ fs = [p \in AllPaths |-> AbsentFile]
    /\ pre = fs
    /\ overwrite = FALSE
    /\ header = NoneOpt
    /\ current = NoneOpt
    /\ segment_index = 0
    /\ status = "running"
    /\ ops = 0
    /\ faults = 0
    /\ made = {}
    /\ used_index = {}
    /\ claimed = [p \in AllPaths |-> <<>>]
    /\ failed_write = {}
    /\ closed = [p \in AllPaths |-> AbsentFile]
    /\ log = <<>>

\* one call of segment_path: it reads base_path and channel and writes nothing
call_segment_path ==
    /\ last.op = "input"
    /\ last' = [last EXCEPT !.op = "segment_path",
                  !.path = segment_path_text(last.base_path, last.channel,
                                             last.timestamp, last.index)]
    /\ UNCHANGED <<fs, overwrite, header, current, segment_index, status, ops,
                   faults, pre, made, used_index, claimed, failed_write,
                   closed, log>>

NextPath == call_segment_path

SpecPath == InitPath /\ [][NextPath]_vars

(* ---- properties ------------------------------------------------------ *)

IsPrefix(a, b) == Len(a) <= Len(b) /\ SubSeq(b, 1, Len(a)) = a

\* the last call ran the segment-creation procedure
RanCreation == last.op = "write_all" /\ last.tried # <<>>

\* the index of the last candidate the last call tried
LastIndex == last.tried[Len(last.tried)]

\* the last call created a segment: the create call and the header write
\* both succeeded
CreatedSegment == RanCreation /\ last.made # NoneOpt /\ ~last.hdrFailed

\* C1: after any call to flush returns, with Ok or with the error of
\* flushing the open file, the sink holds no open segment.
C1_FlushAlwaysReleases == last.op = "flush" => current = NoneOpt

C3_IndexIncreasesNumbersUnique ==
    /\ segment_index = 0
    /\ [][/\ segment_index' >= segment_index
          /\ (last'.op = "write_all" /\ last'.made # NoneOpt /\ ~last'.hdrFailed)
                => segment_index' > segment_index
          /\ (last'.op = "write_all" /\ last'.made # NoneOpt
                /\ Unwrap(last'.made) \notin made)
                => last'.tried[Len(last'.tried)] \notin used_index]_vars

\* C4: under overwrite=false a successful segment creation creates its file
\* at the smallest index i >= segment_index (on entry) whose candidate path
\* did not exist, sets segment_index to i+1 (saturating, as the procedure's
\* step 5 has it) and leaves every skipped pre-existing file unchanged.
C4_SmallestFreeIndex ==
    [][(~overwrite /\ last'.op = "write_all" /\ last'.made # NoneOpt
          /\ ~last'.hdrFailed)
        => LET i == last'.tried[Len(last'.tried)]
               t == last'.timestamp
           IN  /\ i >= segment_index
               /\ ~fs[segment_path(t, i)].exists
               /\ \A j \in segment_index .. (i - 1) :
                     /\ fs[segment_path(t, j)].exists
                     /\ fs'[segment_path(t, j)] = fs[segment_path(t, j)]
               /\ segment_index' = saturating_add(i, 1)]_vars

\* C5: under overwrite=true segment creation makes exactly one create
\* attempt, at index = segment_index; a file already at that path is
\* truncated and replaced, so that the segment holds the header and what
\* was written after it and nothing of the old contents, and the index is
\* not bumped because of the existing file.
C5_OverwriteReplacesInPlace ==
    (overwrite /\ RanCreation)
    => /\ last.tried = <<last.entry_index>>
       /\ last.res \in {"Ok", "Err"}
       /\ last.made # NoneOpt
            => LET p == Unwrap(last.made)
               IN  /\ p = segment_path(last.timestamp, last.entry_index)
                   /\ fs[p].exists
                   /\ \A k \in 1 .. Len(fs[p].data) : fs[p].data[k] # PreContent[1]
                   /\ IsPrefix(fs[p].data, HeaderBytes \o last.buf)
       /\ CreatedSegment
            => /\ IsPrefix(HeaderBytes, fs[Unwrap(last.made)].data)
               /\ segment_index = saturating_add(last.entry_index, 1)

\* a pre-existing file at the candidate path was replaced by a segment that
\* starts with the header
C5_Witness ==
    /\ overwrite
    /\ CreatedSegment
    /\ pre[Unwrap(last.made)].exists
    /\ header # NoneOpt
    /\ last.res = "Ok"

\* C6: once flush has closed a segment, no later operation of the sink
\* changes that file's contents.
C6_ClosedSegmentsUntouched ==
    \A p \in AllPaths : closed[p].exists => fs[p] = closed[p]

\* C7 as stated: the sink has never deleted or renamed a file and has never
\* changed the contents of a file it did not itself create, under either
\* overwrite policy.
C7_ForeignFilesUntouched ==
    \A p \in AllPaths : pre[p].exists => fs[p] = pre[p]

\* C7 amended: no file is ever deleted or renamed; a file changes only at a
\* path where a create call of the sink succeeded; and under
\* overwrite=false no file that existed before construction ever changes
\* (under overwrite=true such a file changes only by being truncated and
\* replaced by that create call).
C7_OnlyCreatedPathsChange ==
    \A p \in AllPaths :
       /\ pre[p].exists => fs[p].exists
       /\ p \notin made => fs[p] = pre[p]
       /\ p \in made => fs[p].exists
       /\ (~overwrite /\ pre[p].exists) => (fs[p] = pre[p] /\ p \notin made)

\* under overwrite=false a segment was created past a pre-existing file
C7_Witness ==
    /\ ~overwrite
    /\ CreatedSegment
    /\ Len(last.tried) >= 2
    /\ pre[segment_path(last.timestamp, last.entry_index)].exists
    /\ fs[Unwrap(last.made)].data # <<>>

\* C8: when segment creation hits a failure other than "already exists"
\* under overwrite=false, write_all returns that error at once with no
\* further attempt, current stays None, and segment_index keeps the value it
\* had on entry even if colliding indices were skipped before the failure.
C8_FatalCreationFailure ==
    (RanCreation /\ last.res = "Err" /\ ~last.dataFailed)
    => /\ last.err = last.fault.kind
       /\ last.err # ""
       /\ last.file = NoneOpt
       /\ current = NoneOpt
       /\ segment_index = last.entry_index
       /\ last.fault.failAt >= 0
            => (Len(last.tried) = last.fault.failAt + 1 /\ last.made = NoneOpt)
       /\ last.hdrFailed
            => last.made = Some(segment_path(last.timestamp, LastIndex))

\* the header write failed on a file created after a collision was skipped
C8_Witness ==
    /\ RanCreation
    /\ last.res = "Err"
    /\ last.hdrFailed
    /\ Len(last.tried) >= 2

\* C9: when the write of the data on the open segment fails, write_all
\* returns that error unchanged, the same segment stays open and
\* segment_index is unchanged, and a following write_all goes to the same
\* segment without creating a file.
C9_DataFailureKeepsSegment ==
    /\ [](last.dataFailed
            => /\ last.res = "Err"
               /\ last.err = last.fault.kind
               /\ last.err # ""
               /\ current # NoneOpt
               /\ current = last.file
               /\ last.entry_current # NoneOpt
                    => (current = last.entry_current
                        /\ segment_index = last.entry_index)
               /\ last.entry_current = NoneOpt
                    => (current = last.made
                        /\ segment_index = saturating_add(LastIndex, 1)))
    /\ [][(last.dataFailed /\ last'.op = "write_all")
            => /\ last'.tried = <<>>
               /\ last'.made = NoneOpt
               /\ current' = current
               /\ segment_index' = segment_index
               /\ \A p \in AllPaths \ current : fs'[p] = fs[p]
               /\ IsPrefix(fs[Unwrap(current)].data, fs'[Unwrap(current)].data)
          ]_vars

\* a data write failed part-way on a segment that was already open
C9_Witness ==
    /\ last.dataFailed
    /\ last.entry_current # NoneOpt
    /\ last.fault.dataFail = 1

\* C10: current goes from None to Some only inside write_all and from Some
\* to None only inside flush; construction and set_header create no file; a
\* write_all issued while a segment is open appends to it without creating
\* a file; at most one segment is open at any time.
C10_CurrentLifecycle ==
    /\ (current = NoneOpt /\ fs = pre /\ made = {})
    /\ [][/\ (current = NoneOpt /\ current' # NoneOpt) => last'.op = "write_all"
          /\ (current # NoneOpt /\ current' = NoneOpt) => last'.op = "flush"
          /\ (current # NoneOpt /\ current' # NoneOpt) => current' = current
          /\ Cardinality(current') <= 1
          /\ last'.op \in {"set_header", "flush"}
               => (fs' = fs /\ made' = made /\ segment_index' = segment_index)
          /\ last'.op = "set_header" => current' = current
          /\ (last'.op = "write_all" /\ current # NoneOpt)
               => /\ last'.tried = <<>>
                  /\ made' = made
                  /\ current' = current
                  /\ segment_index' = segment_index
                  /\ \A p \in AllPaths \ current : fs'[p] = fs[p]
                  /\ IsPrefix(fs[Unwrap(current)].data,
                              fs'[Unwrap(current)].data)
         ]_vars

\* a write_all appended to the segment that was already open
C10_Witness ==
    /\ last.op = "write_all"
    /\ last.entry_current # NoneOpt
    /\ last.res = "Ok"
    /\ current = last.entry_current
    /\ Len(fs[Unwrap(current)].data) >= 2

\* C11: set_header always succeeds and changes only the stored header: it
\* leaves current, segment_index and every file unchanged, no other call
\* changes the header, and every segment created afterwards starts with the
\* bytes of the most recent set_header call.
C11_SetHeaderOnlyStores ==
    [][/\ last'.op = "set_header"
            => /\ last'.res = "Ok"
               /\ status' = "running"
               /\ header' = Some(last'.buf)
               /\ current' = current
               /\ segment_index' = segment_index
               /\ fs' = fs
       /\ last'.op # "set_header" => header' = header
       /\ (last'.op = "write_all" /\ last'.made # NoneOpt /\ ~last'.hdrFailed)
            => /\ fs'[Unwrap(last'.made)].exists
               /\ IsPrefix(HeaderBytes, fs'[Unwrap(last'.made)].data)
      ]_vars

\* a second set_header arrived while a segment that starts with the first
\* header was open, and left it as it was
C11_Witness ==
    /\ last.op = "set_header"
    /\ last.buf = <<6>>
    /\ header = Some(<<6>>)
    /\ current # NoneOpt
    /\ IsPrefix(<<1, 2>>, fs[Unwrap(current)].data)

\* C12: flush called while no segment is open returns Ok and changes
\* nothing: no file is created or modified and current, header and
\* segment_index keep their values.
C12_FlushNothingOpen ==
    [][(last'.op = "flush" /\ current = NoneOpt)
         => /\ last'.res = "Ok"
            /\ status' = "running"
            /\ fs' = fs
            /\ made' = made
            /\ current' = NoneOpt
            /\ header' = header
            /\ segment_index' = segment_index
      ]_vars

\* a flush right after the flush that closed a segment
C12_Witness ==
    /\ last.op = "flush"
    /\ last.entry_current = NoneOpt
    /\ last.res = "Ok"
    /\ \E p \in made : closed[p].exists

\* C13: the first segment the sink ever successfully creates is logged at
\* info level and every later one at debug level, also when the first
\* segment was created only after skipping colliding indices.
C13_FirstSegmentLoggedInfo ==
    log # <<>>
    => /\ log[1] = "info"
       /\ \A i \in 2 .. Len(log) : log[i] = "debug"

\* C14: index arithmetic in segment creation never overflows or wraps: the
\* candidate index of every attempt is segment_index + attempt saturating
\* at the counter's maximum, and the updated segment_index is index + 1
\* saturating alike.
C14_IndexArithmeticSaturates ==
    /\ segment_index \in 0 .. U64Max
    /\ RanCreation
         => /\ last.res # "panic"
            /\ \A k \in 1 .. Len(last.tried) :
                  last.tried[k] = saturating_add(last.entry_index, k - 1)
            /\ CreatedSegment
                 => segment_index = saturating_add(LastIndex, 1)

\* C17: within one segment-creation procedure the timestamp is sampled once:
\* every candidate path tried carries the timestamp of entry, so the
\* candidates differ only in their index.
C17_TimestampSampledOnce ==
    RanCreation
    => /\ last.made # NoneOpt
            => Unwrap(last.made) = segment_path(last.timestamp, LastIndex)
       /\ (last.res \in {"Ok", "Err"})
            => \A k \in 1 .. (Len(last.tried) - 1) :
                  fs[segment_path(last.timestamp, last.tried[k])].exists

\* a segment created after a collision, at a second that is not the last
C17_Witness ==
    /\ CreatedSegment
    /\ Len(last.tried) >= 2
    /\ last.timestamp < MaxClock
    /\ ClockAt(last.timestamp, 1) # last.timestamp

\* the indices from segment_index up that are free at the given second
FreeFrom(timestamp) ==
    {j \in segment_index .. U64Max : ~fs[segment_path(timestamp, j)].exists}

Minimum(S) == CHOOSE x \in S : \A y \in S : x <= y

\* C18 as stated: under overwrite=false the retry loop terminates, with
\* success or a fatal error, after at most one more attempt than the number
\* of candidate paths at indices >= segment_index that already exist.
C18_RetryTerminates ==
    [][(~overwrite /\ last'.op = "write_all" /\ last'.tried # <<>>)
         => /\ last'.res # "hang"
            /\ last'.res # "panic"
            /\ Len(last'.tried)
                 <= Cardinality({j \in segment_index .. U64Max :
                       fs[segment_path(last'.timestamp, j)].exists}) + 1
      ]_vars

\* C18 amended: the same, provided some index from segment_index up to the
\* counter's maximum is free: the loop then ends at the smallest such index
\* or at a fatal error before it.
C18_RetryTerminatesWhileIndicesLeft ==
    [][(~overwrite /\ last'.op = "write_all" /\ last'.tried # <<>>
          /\ FreeFrom(last'.timestamp) # {})
         => LET first == Minimum(FreeFrom(last'.timestamp))
            IN  /\ last'.res # "hang"
                /\ last'.res # "panic"
                /\ Len(last'.tried) <= (first - segment_index) + 1
                /\ Len(last'.tried)
                     <= Cardinality({j \in segment_index .. U64Max :
                           fs[segment_path(last'.timestamp, j)].exists}) + 1
                /\ last'.made # NoneOpt
                     => last'.tried[Len(last'.tried)] = first
      ]_vars

\* a creation that returned after skipping a collision
C18_Witness ==
    /\ ~overwrite
    /\ CreatedSegment
    /\ Len(last.tried) = 2
    /\ last.tried[2] = last.entry_index + 1

\* C19: no sequence of calls, whatever I/O failures are injected, reaches
\* a fatal assertion of the sink: write_all never invokes the partial-write
\* primitive, and whenever ensure_file returned Ok the handle is present.
C19_AssertionsUnreachable ==
    /\ last.res \notin {"expect", "unreachable"}
    /\ (last.op = "write_all" /\ (last.res = "Ok" \/ last.dataFailed))
         => (last.file # NoneOpt /\ current = last.file)

\* a write_all that succeeded after an earlier call had failed
C19_Witness ==
    /\ last.op = "write_all"
    /\ last.res = "Ok"
    /\ faults = 1
    /\ current # NoneOpt

\* C20: at most one segment creation is logged at info level: the info
\* branch needs segment_index = 0 and no collision skipped, and every
\* successful creation leaves segment_index >= 1.
C20_AtMostOneInfo ==
    /\ Cardinality({i \in 1 .. Len(log) : log[i] = "info"}) <= 1
    /\ log # <<>> => segment_index >= 1
    /\ CreatedSegment => segment_index >= 1
    /\ (RanCreation /\ last.level = "info")
         => (last.entry_index = 0 /\ last.tried = <<0>>)

\* a first segment logged at info and a later one at debug
C20_Witness ==
    /\ Len(log) >= 2
    /\ log[1] = "info"
    /\ log[2] = "debug"
    /\ CreatedSegment

\* C15: construction with no path yields no sink and never creates a file
\* system entry; construction with a path yields a sink with current = None,
\* header = None and segment_index = 0 and creates no file: the file system
\* changes only in write_all.
C15_ConstructionCreatesNothing ==
    /\ [](status \in {"unbuilt", "disabled"} => (fs = pre /\ made = {}))
    /\ []((status = "disabled") => (last.op = "new" /\ current = NoneOpt))
    /\ []((last.op = "new" /\ status # "disabled")
            => /\ status = "running"
               /\ current = NoneOpt
               /\ header = NoneOpt
               /\ segment_index = 0
               /\ fs = pre
               /\ made = {})
    /\ [][fs' # fs => last'.op = "write_all"]_vars
    /\ [][status = "unbuilt" => last'.op = "new"]_vars

\* set_header and flush have run on a constructed sink and no file exists
\* beyond those that were there before
C15_Witness ==
    /\ status = "running"
    /\ last.op = "flush"
    /\ header # NoneOpt
    /\ ops >= 3
    /\ fs = pre

\* the number a text of decimal digits stands for
RECURSIVE DigitsValue(_)
DigitsValue(t) ==
    IF t = <<>> THEN 0
    ELSE 10 * DigitsValue(SubSeq(t, 1, Len(t) - 1))
           + (CHOOSE d \in 0 .. 9 : DigitChar(d) = t[Len(t)])

\* C16: segment_path returns the parent directory of the base path (or the
\* bare file name when there is no non-empty parent) joined with
\* {stem}_{channel}_{timestamp}_{index:05}.{ext}, stem and ext coming from
\* the base path's file name with the defaults "recording" and "ts"; the
\* result is a function of these inputs and differs for different indices.
C16_SegmentPathShape ==
    last.op = "segment_path"
    => LET b     == last.base_path
           r     == last.path
           stem  == split_stem_ext(b)[1]
           ext   == split_stem_ext(b)[2]
           idx   == IndexText(last.index)
           name  == stem \o <<"_">> \o last.channel \o <<"_">>
                      \o last.timestamp \o <<"_">> \o idx \o <<Dot>> \o ext
           dir   == parent(b)
           bare  == dir = NoneOpt \/ dir = Some(<<>>)
       IN  /\ stem # <<>> /\ ext # <<>>
           /\ \A i \in 1 .. Len(stem) : stem[i] # Sep
           /\ \A i \in 1 .. Len(ext) : ext[i] \notin {Sep, Dot}
           /\ file_name(b) = NoneOpt => (stem = DefaultStem /\ ext = DefaultExt)
           /\ file_name(b) # NoneOpt
                => \/ Unwrap(file_name(b)) = stem \o <<Dot>> \o ext
                   \/ /\ ext = DefaultExt
                      /\ Unwrap(file_name(b)) \in {stem, stem \o <<Dot>>}
           /\ Len(idx) >= 5
           /\ DigitsValue(idx) = last.index
           /\ Len(idx) > 5 => idx[1] # "0"
           /\ file_name(r) = Some(name)
           /\ bare => r = name
           /\ ~bare => (parent(r) = dir /\ IsPrefix(Unwrap(dir), r))
           /\ \A j \in Indices \ {last.index} :
                 segment_path_text(b, last.channel, last.timestamp, j) # r
           /\ \A t \in TimestampTexts \ {last.timestamp} :
                 segment_path_text(b, last.channel, t, last.index) # r

\* a path with a parent directory and an index of more than five digits
C16_Witness ==
    /\ last.op = "segment_path"
    /\ last.base_path = <<"d", "/", "a", ".", "b">>
    /\ last.index = 100007
    /\ last.path = <<"d", "/", "a", "_">> \o last.channel \o <<"_">>
                     \o last.timestamp
                     \o <<"_", "1", "0", "0", "0", "0", "7", ".", "b">>

====
